---- MODULE Spec2Model ----
(***************************************************************************)
(* Model of crates/sui-node/src/lib.rs: SuiNode::start, SuiNode::state,    *)
(* SuiNode::wait and build_node_server.                                    *)
(*                                                                         *)
(* start is one sequential async routine.  Every fallible call (`?`) and   *)
(* every spawn is one step of the routine; pc is the position of start.    *)
(* An Option is modelled by its presence (TRUE = Some, FALSE = None).      *)
(* Spawned tasks run concurrently with the rest of start and with wait.    *)
(***************************************************************************)
EXTENDS Naturals, Sequences, FiniteSets

\* Largest genesis validator set explored (the loop of lib.rs:129-135).
MaxValidators == 2

\* Most calls of SuiNode::state explored.
MaxStateCalls == 2

Stores == {"store", "checkpoints", "indexes", "follower_db", "events.db", "node_sync_db"}

\* The spawned tokio tasks (JoinHandles of lib.rs:40-45).
TaskNames == {"grpc_server", "batch_subsystem", "post_processing_subsystem", "gossip", "node_sync"}

\* Fields of struct SuiNode that hold a handle (lib.rs:39-47).
HandleNames == {"grpc_server", "_json_rpc_service", "_ws_subscription_service",
                "_batch_subsystem_handle", "_post_processing_subsystem_handle",
                "_gossip_handle"}

VARIABLES
    config,             \* NodeConfig: the fields start branches on
    num_validators,     \* size of genesis.validator_set()
    pc,                 \* position of SuiNode::start
    steps,              \* startup steps completed so far, in order
    result,             \* outcome of start: "none" (running), "ok", "err", "panic"
    failed_at,          \* step at which start failed, or "none"
    opened,             \* on-disk stores opened under db_path
    event_store,        \* "none", "opened" (new_from_file), "initialized"
    state,              \* the AuthorityState built by start
    authority_clients,  \* number of NetworkAuthorityClients inserted
    active_authority,   \* ActiveAuthority constructed
    handles,            \* local handle variables of start that are Some
    tasks,              \* status of every spawned task
    spawns,             \* the spawn calls made so far, in order, with their arguments
    grpc,               \* the peer server: services registered, bound
    json_rpc,           \* the http JsonRpcServerBuilder/server
    ws,                 \* the websocket JsonRpcServerBuilder/server
    node,               \* the SuiNode returned by start
    wait_pc,            \* position of SuiNode::wait
    wait_result         \* result of SuiNode::wait

vars == <<config, num_validators, pc, steps, result, failed_at, opened, event_store,
          state, authority_clients, active_authority, handles, tasks, spawns,
          grpc, json_rpc, ws, node, wait_pc, wait_result>>

\* groups used in UNCHANGED
storeVars == <<opened, event_store>>
replVars == <<authority_clients, active_authority>>
serverVars == <<grpc, json_rpc, ws>>
waitVars == <<node, wait_pc, wait_result>>
inputVars == <<config, num_validators>>
taskVars == <<tasks, spawns>>

NoState == [built |-> FALSE, index_store |-> FALSE, event_handler |-> FALSE,
            checkpoint_store |-> FALSE, instances |-> 0,
            holders |-> {}, returned |-> <<>>]

NoNode == [built |-> FALSE, handles |-> {}, gossip_kind |-> "none"]

NoServer == [built |-> FALSE, use_websocket |-> FALSE, modules |-> {}, started |-> FALSE]

Init ==
    /\ config \in [consensus_config : BOOLEAN,
                   enable_gossip : BOOLEAN,
                   enable_event_processing : BOOLEAN,
                   websocket_address : BOOLEAN]
    /\ num_validators \in 0..MaxValidators
    /\ pc = "genesis"
    /\ steps = <<>>
    /\ result = "none"
    /\ failed_at = "none"
    /\ opened = {}
    /\ event_store = "none"
    /\ state = NoState
    /\ authority_clients = 0
    /\ active_authority = FALSE
    /\ handles = {}
    /\ tasks = [t \in TaskNames |-> "none"]
    /\ spawns = <<>>
    /\ grpc = [validator_service |-> FALSE, services |-> {}, bound |-> FALSE]
    /\ json_rpc = NoServer
    /\ ws = NoServer
    /\ node = NoNode
    /\ wait_pc = "idle"
    /\ wait_result = "none"

----------------------------------------------------------------------------
\* Control flow of start

\* A step completed: start moves on to the next one.
Advance(step, next) ==
    /\ pc' = next
    /\ steps' = Append(steps, step)
    /\ UNCHANGED <<result, failed_at>>

\* The error is recorded but start carries on with the step.
PropagateSwallowed(step) ==
    /\ failed_at' = step
    /\ result' = "err"
    /\ UNCHANGED <<pc, steps, handles>>

\* The `?` operator: the error is returned to the caller of start; the local
\* handles go out of scope (dropping a JoinHandle detaches the task).
Propagate(step) ==
    /\ pc' = "failed"
    /\ result' = "err"
    /\ failed_at' = step
    /\ handles' = {}
    /\ UNCHANGED steps

\* tokio::task::spawn / spawn_*_process: the task starts running.
Spawn(t, args) ==
    /\ tasks' = [tasks EXCEPT ![t] = "running"]
    /\ spawns' = Append(spawns, [task |-> t, args |-> args])

\* `.unwrap()` on an Err: start panics instead of returning.
Unwrap(step) ==
    /\ pc' = "failed"
    /\ result' = "panic"
    /\ failed_at' = step
    /\ handles' = {}
    /\ UNCHANGED steps

----------------------------------------------------------------------------
\* Storage bootstrap (lib.rs:64-99)

\* let genesis = config.genesis()?;
Genesis ==
    /\ pc = "genesis"
    /\ \/ Advance("genesis", "committee") /\ UNCHANGED handles
       \/ Propagate("genesis")
    /\ UNCHANGED <<inputVars, storeVars, state, replVars, taskVars, serverVars, waitVars>>

\* let committee = genesis.committee()?;
Committee ==
    /\ pc = "committee"
    /\ \/ Advance("committee", "store") /\ UNCHANGED handles
       \/ Propagate("committee")
    /\ UNCHANGED <<inputVars, storeVars, state, replVars, taskVars, serverVars, waitVars>>

\* AuthorityStore::open(db_path/store): no `?`, the call returns the store.
OpenStore ==
    /\ pc = "store"
    /\ opened' = opened \cup {"store"}
    /\ Advance("store", "checkpoint_store")
    /\ UNCHANGED <<inputVars, event_store, state, replVars, handles, taskVars, serverVars, waitVars>>

\* if config.consensus_config().is_some() { Some(CheckpointStore::open(..)?) } else { None }
checkpoint_store_is_some == config.consensus_config

OpenCheckpointStore ==
    /\ pc = "checkpoint_store"
    /\ \/ /\ checkpoint_store_is_some
          /\ \/ /\ opened' = opened \cup {"checkpoints"}
                /\ Advance("checkpoint_store", "index_store")
                /\ UNCHANGED handles
             \/ /\ Propagate("checkpoint_store")
                /\ UNCHANGED opened
       \/ /\ ~checkpoint_store_is_some
          /\ Advance("checkpoint_store", "index_store")
          /\ UNCHANGED <<opened, handles>>
    /\ UNCHANGED <<inputVars, event_store, state, replVars, taskVars, serverVars, waitVars>>

\* The index store opened for every role.
index_store_always == TRUE

\* if config.consensus_config().is_some() { None } else { Some(IndexStore::open(..)) }
index_store_is_some == ~config.consensus_config

OpenIndexStore ==
    /\ pc = "index_store"
    /\ opened' = IF index_store_is_some THEN opened \cup {"indexes"} ELSE opened
    /\ Advance("index_store", "follower_store")
    /\ UNCHANGED <<inputVars, event_store, state, replVars, handles, taskVars, serverVars, waitVars>>

\* let follower_store = Arc::new(FollowerStore::open(db_path/follower_db)?);
OpenFollowerStore ==
    /\ pc = "follower_store"
    /\ \/ /\ opened' = opened \cup {"follower_db"}
          /\ Advance("follower_store", "event_store")
          /\ UNCHANGED handles
       \/ /\ Propagate("follower_store")
          /\ UNCHANGED opened
    /\ UNCHANGED <<inputVars, event_store, state, replVars, taskVars, serverVars, waitVars>>

\* if config.enable_event_processing { SqlEventStore::new_from_file(events.db).await? .. }
OpenEventStore ==
    /\ pc = "event_store"
    /\ \/ /\ config.enable_event_processing
          /\ \/ /\ opened' = opened \cup {"events.db"}
                /\ event_store' = "opened"
                /\ Advance("event_store", "event_store_initialize")
                /\ UNCHANGED handles
             \/ /\ Propagate("event_store")
                /\ UNCHANGED storeVars
       \/ /\ ~config.enable_event_processing
          /\ Advance("event_store", "state")
          /\ UNCHANGED <<storeVars, handles>>
    /\ UNCHANGED <<inputVars, state, replVars, taskVars, serverVars, waitVars>>

\* The initialization not awaited: the store stays as new_from_file left it.
InitializeEventStoreNotAwaited ==
    /\ pc = "event_store_initialize"
    /\ Advance("event_store_initialize", "state")
    /\ UNCHANGED <<inputVars, storeVars, state, replVars, handles, taskVars, serverVars, waitVars>>

\* db.initialize().await?;
InitializeEventStore ==
    /\ pc = "event_store_initialize"
    /\ \/ /\ event_store' = "initialized"
          /\ Advance("event_store_initialize", "state")
          /\ UNCHANGED handles
       \/ /\ Propagate("event_store_initialize")
          /\ UNCHANGED event_store
    /\ UNCHANGED <<inputVars, opened, state, replVars, taskVars, serverVars, waitVars>>

----------------------------------------------------------------------------
\* Ledger state construction (lib.rs:101-114)

\* AuthorityState exposes an event handler iff it was given an event store.
event_handler_of(store) == store # "none"

\* The construction not awaited: start goes on without the ledger state.
NewStateNotAwaited ==
    /\ pc = "state"
    /\ Advance("state", "follower")
    /\ UNCHANGED <<inputVars, storeVars, state, replVars, handles, taskVars, serverVars, waitVars>>

\* Arc::new(AuthorityState::new(.., index_store.clone(), event_store, checkpoint_store, ..).await)
NewState ==
    /\ pc = "state"
    /\ state' = [built |-> TRUE,
                 index_store |-> "indexes" \in opened,
                 event_handler |-> event_handler_of(event_store),
                 checkpoint_store |-> "checkpoints" \in opened,
                 instances |-> state.instances + 1,
                 holders |-> {<<"start", state.instances + 1>>},
                 returned |-> <<>>]
    /\ Advance("state", "follower")
    /\ UNCHANGED <<inputVars, storeVars, replVars, handles, taskVars, serverVars, waitVars>>

----------------------------------------------------------------------------
\* Shared references to the ledger state

\* A component given a reference builds a ledger state of its own.
CloneConstructs(holder) ==
    state' = [state EXCEPT !.instances = state.instances + 1,
                           !.holders = state.holders \cup {<<holder, state.instances + 1>>}]

\* state.clone(): holder gets a new Arc to the instance start built.
Clone(holder) ==
    state' = [state EXCEPT !.holders = state.holders \cup {<<holder, state.instances>>}]

----------------------------------------------------------------------------
\* Mode resolution and replication subsystem (lib.rs:116-160)

is_validator == config.consensus_config

is_node == ~is_validator

\* The gossip flag deciding replication for every role.
should_start_follower_flag_only == config.enable_gossip

should_start_follower == is_node \/ config.enable_gossip

\* let gossip_handle = if should_start_follower { .. } else { None };
StartFollower ==
    /\ pc = "follower"
    /\ IF should_start_follower
       THEN Advance("follower", "connect")
       ELSE Advance("follower", "batch")
    /\ UNCHANGED <<inputVars, storeVars, state, replVars, handles, taskVars, serverVars, waitVars>>

\* for validator in genesis.validator_set() {
\*     let channel = net_config.connect_lazy(validator.network_address()).unwrap(); .. }
ConnectLazy ==
    /\ pc = "connect"
    /\ authority_clients < num_validators
    /\ \/ /\ authority_clients' = authority_clients + 1
          /\ Advance("connect", "connect")
          /\ UNCHANGED handles
       \/ /\ Unwrap("connect")
          /\ UNCHANGED authority_clients
    /\ UNCHANGED <<inputVars, storeVars, state, active_authority, taskVars, serverVars, waitVars>>

\* let active_authority = Arc::new(ActiveAuthority::new(state.clone(), follower_store, ..)?);
NewActiveAuthority ==
    /\ pc = "connect"
    /\ authority_clients = num_validators
    /\ \/ /\ active_authority' = TRUE
          /\ Clone("active_authority")
          /\ Advance("active_authority", "spawn_replication")
          /\ UNCHANGED handles
       \/ /\ Propagate("active_authority")
          /\ UNCHANGED <<active_authority, state>>
    /\ UNCHANGED <<inputVars, storeVars, authority_clients, taskVars, serverVars, waitVars>>

\* The two branches of the replication choice swapped.
replication_kind_swapped == IF is_validator THEN "node_sync" ELSE "gossip"

\* Some(if is_validator { spawn_gossip_process } else { spawn_node_sync_process })
replication_kind == IF is_validator THEN "gossip" ELSE "node_sync"

\* TODO in the source: get degree from config file.
degree == 4

\* active_authority.spawn_gossip_process(degree).await
SpawnGossip ==
    /\ pc = "spawn_replication"
    /\ replication_kind = "gossip"
    /\ Spawn("gossip", <<degree>>)
    /\ handles' = handles \cup {"_gossip_handle"}
    /\ Advance("spawn_gossip", "batch")
    /\ UNCHANGED <<inputVars, storeVars, state, replVars, serverVars, waitVars>>

\* let pending_store = Arc::new(NodeSyncStore::open(db_path/node_sync_db)?);
OpenNodeSyncStore ==
    /\ pc = "spawn_replication"
    /\ replication_kind = "node_sync"
    /\ \/ /\ opened' = opened \cup {"node_sync_db"}
          /\ Advance("node_sync_store", "spawn_node_sync")
          /\ UNCHANGED handles
       \/ /\ Propagate("node_sync_store")
          /\ UNCHANGED opened
    /\ UNCHANGED <<inputVars, event_store, state, replVars, taskVars, serverVars, waitVars>>

\* active_authority.spawn_node_sync_process(pending_store).await
SpawnNodeSync ==
    /\ pc = "spawn_node_sync"
    /\ Spawn("node_sync", <<"node_sync_db">>)
    /\ handles' = handles \cup {"_gossip_handle"}
    /\ Advance("spawn_node_sync", "batch")
    /\ UNCHANGED <<inputVars, storeVars, state, replVars, serverVars, waitVars>>

----------------------------------------------------------------------------
\* Periodic services (lib.rs:162-184)

batch_size == 1000

batch_seconds == 1

\* The batch service spawned only on a node that replicates.
SpawnBatchFollowerOnly ==
    /\ pc = "batch"
    /\ IF should_start_follower
       THEN /\ Spawn("batch_subsystem", <<batch_size, batch_seconds>>)
            /\ Clone("batch_subsystem")
            /\ handles' = handles \cup {"_batch_subsystem_handle"}
       ELSE UNCHANGED <<taskVars, handles, state>>
    /\ Advance("batch", "post_processing")
    /\ UNCHANGED <<inputVars, storeVars, replVars, serverVars, waitVars>>

\* tokio::task::spawn(batch_state.run_batch_service(1000, Duration::from_secs(1)))
SpawnBatch ==
    /\ pc = "batch"
    /\ Spawn("batch_subsystem", <<batch_size, batch_seconds>>)
    /\ Clone("batch_subsystem")
    /\ handles' = handles \cup {"_batch_subsystem_handle"}
    /\ Advance("batch", "post_processing")
    /\ UNCHANGED <<inputVars, storeVars, replVars, serverVars, waitVars>>

\* The event flag left out of the condition.
should_post_process_index_only == index_store_is_some

\* if index_store.is_some() || config.enable_event_processing
should_post_process == index_store_is_some \/ config.enable_event_processing

SpawnPostProcessing ==
    /\ pc = "post_processing"
    /\ IF should_post_process
       THEN /\ Spawn("post_processing_subsystem", <<>>)
            /\ Clone("post_processing_subsystem")
            /\ handles' = handles \cup {"_post_processing_subsystem_handle"}
       ELSE UNCHANGED <<taskVars, handles, state>>
    /\ Advance("post_processing", "validator_service")
    /\ UNCHANGED <<inputVars, storeVars, replVars, serverVars, waitVars>>

----------------------------------------------------------------------------
\* Peer server (lib.rs:186-204)

\* The validator service built for every role.
validator_service_always == TRUE

\* if config.consensus_config().is_some() { Some(ValidatorService::new(..).await?) } else { None }
validator_service_is_some == config.consensus_config

NewValidatorService ==
    /\ pc = "validator_service"
    /\ \/ /\ validator_service_is_some
          /\ \/ /\ grpc' = [grpc EXCEPT !.validator_service = TRUE]
                /\ Clone("validator_service")
                /\ Advance("validator_service", "grpc_server")
                /\ UNCHANGED handles
             \/ /\ Propagate("validator_service")
                /\ UNCHANGED <<grpc, state>>
       \/ /\ ~validator_service_is_some
          /\ Advance("validator_service", "grpc_server")
          /\ UNCHANGED <<grpc, handles, state>>
    /\ UNCHANGED <<inputVars, storeVars, replVars, taskVars, json_rpc, ws, waitVars>>

\* if let Some(validator_service) = validator_service { server_builder.add_service(..) }
added_services(validator_service) ==
    IF validator_service THEN {"ValidatorServer"} ELSE {}

\* The bind moved inside the `if let Some(validator_service)`.
GrpcServerValidatorOnly ==
    /\ pc = "grpc_server"
    /\ \/ /\ grpc.validator_service
          /\ grpc' = [grpc EXCEPT !.services = added_services(grpc.validator_service),
                                  !.bound = TRUE]
          /\ Spawn("grpc_server", <<>>)
          /\ handles' = handles \cup {"grpc_server"}
          /\ Advance("grpc_server", "build_node_server")
       \/ /\ grpc.validator_service
          /\ Propagate("grpc_server")
          /\ UNCHANGED <<grpc, taskVars>>
       \/ /\ ~grpc.validator_service
          /\ Advance("grpc_server", "build_node_server")
          /\ UNCHANGED <<grpc, taskVars, handles>>
    /\ UNCHANGED <<inputVars, storeVars, state, replVars, json_rpc, ws, waitVars>>

\* let server = server_builder.bind(config.network_address()).await?;
\* tokio::spawn(server.serve().map_err(Into::into))
GrpcServer ==
    /\ pc = "grpc_server"
    /\ \/ /\ grpc' = [grpc EXCEPT !.services = added_services(grpc.validator_service),
                                  !.bound = TRUE]
          /\ Spawn("grpc_server", <<>>)
          /\ handles' = handles \cup {"grpc_server"}
          /\ Advance("grpc_server", "build_node_server")
       \/ /\ Propagate("grpc_server")
          /\ UNCHANGED <<grpc, taskVars>>
    /\ UNCHANGED <<inputVars, storeVars, state, replVars, json_rpc, ws, waitVars>>

----------------------------------------------------------------------------
\* build_node_server (lib.rs:236-278)

\* The early return taken by the wrong role.
returns_no_services_inverted == ~config.consensus_config

\* Validators do not expose these APIs:
\* if config.consensus_config().is_some() { return Ok((None, None)); }
returns_no_services == config.consensus_config

BuildNodeServer ==
    /\ pc = "build_node_server"
    /\ Clone("build_node_server")
    /\ IF returns_no_services
       THEN Advance("build_node_server", "node")
       ELSE Advance("build_node_server", "json_rpc_builder")
    /\ UNCHANGED <<inputVars, storeVars, replVars, handles, taskVars, serverVars, waitVars>>

\* let mut server = JsonRpcServerBuilder::new(false, prometheus_registry)?;
NewJsonRpcServerBuilder ==
    /\ pc = "json_rpc_builder"
    /\ \/ /\ json_rpc' = [built |-> TRUE, use_websocket |-> FALSE,
                          modules |-> {}, started |-> FALSE]
          /\ Advance("json_rpc_builder", "register_ReadApi")
          /\ UNCHANGED handles
       \/ /\ Propagate("json_rpc_builder")
          /\ UNCHANGED json_rpc
    /\ UNCHANGED <<inputVars, storeVars, state, replVars, taskVars, grpc, ws, waitVars>>

\* server.register_module(ReadApi / FullNodeApi / BcsApiImpl ::new(state.clone()))?;
RegisterModule(module, next) ==
    /\ pc = "register_" \o module
    /\ \/ /\ json_rpc' = [json_rpc EXCEPT !.modules = @ \cup {module}]
          /\ Clone(module)
          /\ Advance("register_" \o module, next)
          /\ UNCHANGED handles
       \/ /\ Propagate("register_" \o module)
          /\ UNCHANGED <<json_rpc, state>>
    /\ UNCHANGED <<inputVars, storeVars, replVars, taskVars, grpc, ws, waitVars>>

\* The event-read module registered without looking at the event handler.
registers_event_read_always(event_handler) == TRUE

\* if let Some(event_handler) = state.event_handler.clone()
registers_event_read(event_handler) == event_handler

\* server.register_module(EventReadApiImpl::new(state.clone(), event_handler))?;
RegisterEventReadApi ==
    /\ pc = "register_EventReadApiImpl"
    /\ \/ /\ registers_event_read(state.event_handler)
          /\ \/ /\ json_rpc' = [json_rpc EXCEPT !.modules = @ \cup {"EventReadApiImpl"}]
                /\ Clone("EventReadApiImpl")
                /\ Advance("register_EventReadApiImpl", "json_rpc_start")
                /\ UNCHANGED handles
             \/ /\ Propagate("register_EventReadApiImpl")
                /\ UNCHANGED <<json_rpc, state>>
       \/ /\ ~registers_event_read(state.event_handler)
          /\ Advance("register_EventReadApiImpl", "json_rpc_start")
          /\ UNCHANGED <<json_rpc, handles, state>>
    /\ UNCHANGED <<inputVars, storeVars, replVars, taskVars, grpc, ws, waitVars>>

\* server.start(config.json_rpc_address).await?.into_http_server_handle().expect(..)
\* The builder was made with use_websocket = false, so the handle is an http
\* handle and the expect does not panic.
StartJsonRpcServer ==
    /\ pc = "json_rpc_start"
    /\ \/ /\ json_rpc' = [json_rpc EXCEPT !.started = TRUE]
          /\ handles' = handles \cup {"_json_rpc_service"}
          /\ Advance("json_rpc_start", "ws")
       \/ /\ Propagate("json_rpc_start")
          /\ UNCHANGED json_rpc
    /\ UNCHANGED <<inputVars, storeVars, state, replVars, taskVars, grpc, ws, waitVars>>

\* The match looking at the address only.
ws_match_address_only(websocket_address, event_handler) == websocket_address

\* match (config.websocket_address, state.event_handler.clone()) {
\*     (Some(ws_addr), Some(event_handler)) => Some(..), _ => None }
ws_match(websocket_address, event_handler) == websocket_address /\ event_handler

WsMatch ==
    /\ pc = "ws"
    /\ IF ws_match(config.websocket_address, state.event_handler)
       THEN Advance("ws", "ws_builder")
       ELSE Advance("ws", "node")
    /\ UNCHANGED <<inputVars, storeVars, state, replVars, handles, taskVars, serverVars, waitVars>>

\* let mut server = JsonRpcServerBuilder::new(true, prometheus_registry)?;
NewWsServerBuilder ==
    /\ pc = "ws_builder"
    /\ \/ /\ ws' = [built |-> TRUE, use_websocket |-> TRUE,
                    modules |-> {}, started |-> FALSE]
          /\ Advance("ws_builder", "ws_register")
          /\ UNCHANGED handles
       \/ /\ Propagate("ws_builder")
          /\ UNCHANGED ws
    /\ UNCHANGED <<inputVars, storeVars, state, replVars, taskVars, grpc, json_rpc, waitVars>>

\* server.register_module(EventStreamingApiImpl::new(state.clone(), event_handler))?;
RegisterEventStreamingApi ==
    /\ pc = "ws_register"
    /\ \/ /\ ws' = [ws EXCEPT !.modules = @ \cup {"EventStreamingApiImpl"}]
          /\ Clone("EventStreamingApiImpl")
          /\ Advance("ws_register", "ws_start")
          /\ UNCHANGED handles
       \/ /\ Propagate("ws_register")
          /\ UNCHANGED <<ws, state>>
    /\ UNCHANGED <<inputVars, storeVars, replVars, taskVars, grpc, json_rpc, waitVars>>

\* Handles that abort their task when dropped: a failing start cancels the
\* tasks it has spawned.
StartWsServerAbortingOnFailure ==
    /\ pc = "ws_start"
    /\ \/ /\ ws' = [ws EXCEPT !.started = TRUE]
          /\ handles' = handles \cup {"_ws_subscription_service"}
          /\ Advance("ws_start", "node")
          /\ UNCHANGED taskVars
       \/ /\ Propagate("ws_start")
          /\ tasks' = [t \in TaskNames |-> IF tasks[t] = "running" THEN "err" ELSE tasks[t]]
          /\ UNCHANGED <<ws, spawns>>
    /\ UNCHANGED <<inputVars, storeVars, state, replVars, grpc, json_rpc, waitVars>>

\* server.start(ws_addr).await?.into_ws_server_handle().expect(..)
StartWsServer ==
    /\ pc = "ws_start"
    /\ \/ /\ ws' = [ws EXCEPT !.started = TRUE]
          /\ handles' = handles \cup {"_ws_subscription_service"}
          /\ Advance("ws_start", "node")
       \/ /\ Propagate("ws_start")
          /\ UNCHANGED ws
    /\ UNCHANGED <<inputVars, storeVars, state, replVars, taskVars, grpc, json_rpc, waitVars>>

----------------------------------------------------------------------------
\* The node (lib.rs:209-233)

\* let node = Self { grpc_server, _json_rpc_service, .. , state }; Ok(node)
ReturnNode ==
    /\ pc = "node"
    /\ node' = [built |-> TRUE, handles |-> handles,
                gossip_kind |-> IF "_gossip_handle" \in handles
                                THEN replication_kind ELSE "none"]
    /\ state' = [state EXCEPT !.holders =
                    {IF h[1] = "start" THEN <<"node", h[2]>> ELSE h : h \in state.holders}]
    /\ handles' = {}
    /\ pc' = "done"
    /\ result' = "ok"
    /\ steps' = Append(steps, "node")
    /\ UNCHANGED <<inputVars, failed_at, storeVars, replVars, taskVars, serverVars,
                   wait_pc, wait_result>>

\* The instance the node's state field refers to (0: none).
NodeState ==
    LET ids == {h[2] : h \in {g \in state.holders : g[1] = "node"}}
    IN IF ids = {} THEN 0 ELSE CHOOSE i \in ids : TRUE

\* pub fn state(&self) -> Arc<AuthorityState> { self.state.clone() }
\* The caller gets a new Arc; the node is only borrowed.
StateAccessor ==
    /\ node.built
    /\ wait_pc = "idle"
    /\ Len(state.returned) < MaxStateCalls
    /\ state' = [state EXCEPT !.returned = Append(state.returned, NodeState)]
    /\ UNCHANGED <<inputVars, pc, steps, result, failed_at, storeVars, replVars,
                   handles, taskVars, serverVars, waitVars>>

\* pub async fn wait(self): the node is consumed.
WaitCall ==
    /\ node.built
    /\ wait_pc = "idle"
    /\ wait_pc' = "awaiting"
    /\ UNCHANGED <<inputVars, pc, steps, result, failed_at, storeVars, state, replVars,
                   handles, taskVars, serverVars, node, wait_result>>

\* wait awaiting the batch handle.
joined_handle_batch == "batch_subsystem"

\* The only handle wait awaits: self.grpc_server
joined_handle == "grpc_server"

\* `.await??`: a JoinError (panic) and the task's own Err both become Err.
join_result(status) == IF status = "ok" THEN "ok" ELSE "err"

\* The TODO of lib.rs:228 carried out: wait joins every task and returns the
\* first failure it finds.
WaitReturnJoinsAll ==
    /\ wait_pc = "awaiting"
    /\ \A t \in TaskNames : tasks[t] # "running"
    /\ tasks["grpc_server"] # "none"
    /\ wait_result' = IF \A t \in TaskNames : tasks[t] \in {"none", "ok"} THEN "ok" ELSE "err"
    /\ wait_pc' = "returned"
    /\ UNCHANGED <<inputVars, pc, steps, result, failed_at, storeVars, state, replVars,
                   handles, taskVars, serverVars, node>>

\* self.grpc_server.await??; Ok(())
WaitReturn ==
    /\ wait_pc = "awaiting"
    /\ tasks[joined_handle] \in {"ok", "err", "panicked"}
    /\ wait_result' = join_result(tasks[joined_handle])
    /\ wait_pc' = "returned"
    /\ UNCHANGED <<inputVars, pc, steps, result, failed_at, storeVars, state, replVars,
                   handles, taskVars, serverVars, node>>

----------------------------------------------------------------------------
\* Spawned tasks

\* Terminal results of a task: JoinHandle<Result<()>> ends Ok, Err or by panic;
\* JoinHandle<()> (gossip, node sync) ends with () or by panic.
Outcomes(t) ==
    IF t \in {"gossip", "node_sync"} THEN {"ok", "panicked"} ELSE {"ok", "err", "panicked"}

\* A running task terminates; nothing in start or wait aborts a task.
TaskTerminates(t) ==
    /\ tasks[t] = "running"
    /\ \E o \in Outcomes(t) : tasks' = [tasks EXCEPT ![t] = o]
    /\ UNCHANGED <<inputVars, pc, steps, result, failed_at, storeVars, state, replVars,
                   handles, spawns, serverVars, waitVars>>

----------------------------------------------------------------------------

\* The steps of SuiNode::start.
StartNext ==
    \/ Genesis
    \/ Committee
    \/ OpenStore
    \/ OpenCheckpointStore
    \/ OpenIndexStore
    \/ OpenFollowerStore
    \/ OpenEventStore
    \/ InitializeEventStore
    \/ NewState
    \/ StartFollower
    \/ ConnectLazy
    \/ NewActiveAuthority
    \/ SpawnGossip
    \/ OpenNodeSyncStore
    \/ SpawnNodeSync
    \/ SpawnBatch
    \/ SpawnPostProcessing
    \/ NewValidatorService
    \/ GrpcServer
    \/ BuildNodeServer
    \/ NewJsonRpcServerBuilder
    \/ RegisterModule("ReadApi", "register_FullNodeApi")
    \/ RegisterModule("FullNodeApi", "register_BcsApiImpl")
    \/ RegisterModule("BcsApiImpl", "register_EventReadApiImpl")
    \/ RegisterEventReadApi
    \/ StartJsonRpcServer
    \/ WsMatch
    \/ NewWsServerBuilder
    \/ RegisterEventStreamingApi
    \/ StartWsServer
    \/ ReturnNode

Next ==
    \/ StartNext
    \/ StateAccessor
    \/ WaitCall
    \/ WaitReturn
    \/ \E t \in TaskNames : TaskTerminates(t)

Spec == Init /\ [][Next]_vars

----------------------------------------------------------------------------
\* Properties

Started == result = "ok"

Done(step) == \E i \in 1..Len(steps) : steps[i] = step

Terminated(t) == tasks[t] \in {"ok", "err", "panicked"}

ServiceHandles == {"_json_rpc_service", "_ws_subscription_service"}

\* C1: with the consensus configuration present, a successful start has opened
\* the checkpoint store and not the index store, has registered the validator
\* service on the bound peer server, and has built and started neither the
\* JSON query server nor the subscription server (both handles are None).
C1_ValidatorComposition ==
    (Started /\ config.consensus_config) =>
        /\ "checkpoints" \in opened
        /\ "indexes" \notin opened
        /\ grpc.bound
        /\ "ValidatorServer" \in grpc.services
        /\ ~json_rpc.built /\ ~json_rpc.started
        /\ ~ws.built /\ ~ws.started
        /\ node.handles \cap ServiceHandles = {}

C1_Witness ==
    /\ Started
    /\ config.consensus_config
    /\ config.enable_gossip
    /\ config.enable_event_processing
    /\ config.websocket_address
    /\ "ValidatorServer" \in grpc.services

\* C2: with the consensus configuration absent, a successful start has opened
\* the index store and not the checkpoint store, and has spawned the node-sync
\* task and never the gossip task, whatever enable_gossip is.
C2_FullNodeComposition ==
    (Started /\ ~config.consensus_config) =>
        /\ "indexes" \in opened
        /\ "checkpoints" \notin opened
        /\ tasks["node_sync"] # "none"
        /\ tasks["gossip"] = "none"
        /\ "_gossip_handle" \in node.handles
        /\ node.gossip_kind = "node_sync"

C2_Witness ==
    /\ Started
    /\ ~config.consensus_config
    /\ ~config.enable_gossip
    /\ tasks["node_sync"] = "running"

ReplicationSpawns == {i \in 1..Len(spawns) : spawns[i].task \in {"gossip", "node_sync"}}

\* C3: at most one replication task ever exists and gossip and node sync are
\* never both spawned; should_start_follower equals enable_gossip on a validator
\* and is true on a full node; once start is past the replication step a
\* validator with gossip has the gossip task only, a validator without gossip
\* has no replication task, and a full node has the node-sync task.
C3_ReplicationKind ==
    /\ Cardinality(ReplicationSpawns) <= 1
    /\ ~(tasks["gossip"] # "none" /\ tasks["node_sync"] # "none")
    /\ should_start_follower = (IF config.consensus_config THEN config.enable_gossip ELSE TRUE)
    /\ (config.consensus_config /\ ~config.enable_gossip) =>
            (tasks["gossip"] = "none" /\ tasks["node_sync"] = "none")
    /\ config.consensus_config => tasks["node_sync"] = "none"
    /\ ~config.consensus_config => tasks["gossip"] = "none"
    /\ Done("batch") =>
        /\ (config.consensus_config /\ config.enable_gossip) => tasks["gossip"] # "none"
        /\ ~config.consensus_config => tasks["node_sync"] # "none"
    /\ Started => (("_gossip_handle" \in node.handles) <=> should_start_follower)

C3_Witness ==
    /\ Started
    /\ config.consensus_config
    /\ ~config.enable_gossip
    /\ "_gossip_handle" \notin node.handles
    /\ ReplicationSpawns = {}

WsSteps == {"ws_builder", "ws_register", "ws_start"}

WsConditions ==
    ~config.consensus_config /\ config.enable_event_processing /\ config.websocket_address

\* C4: after a successful start the subscription server is started (and its
\* handle held by the node) iff the node is a full node, event processing is
\* enabled and a websocket address is configured; and start fails at a
\* subscription-server step only when all three hold, so a missing condition
\* gives no subscription server and no error.
C4_SubscriptionListener ==
    /\ Started => /\ ws.started <=> WsConditions
                  /\ ("_ws_subscription_service" \in node.handles) <=> WsConditions
    /\ ~WsConditions => (~ws.built /\ failed_at \notin WsSteps)

C4_Witness ==
    /\ Started
    /\ WsConditions
    /\ ws.started
    /\ "EventStreamingApiImpl" \in ws.modules

\* C5 as stated: after a successful start the event-read module is registered
\* iff event processing is enabled, in every configuration.
C5_Original ==
    Started => (("EventReadApiImpl" \in json_rpc.modules) <=> config.enable_event_processing)

\* C5 (amended): after a successful start the event-read module is registered
\* iff event processing is enabled and the node is a full node, whether or not
\* a websocket address is configured; a validator never registers it.
C5_EventReadModule ==
    Started => (("EventReadApiImpl" \in json_rpc.modules) <=>
                    (config.enable_event_processing /\ ~config.consensus_config))

C5_Witness ==
    /\ Started
    /\ ~config.consensus_config
    /\ config.enable_event_processing
    /\ ~config.websocket_address
    /\ "EventReadApiImpl" \in json_rpc.modules

\* C6: wait has returned only if the grpc_server task has terminated, and it
\* returned an error exactly when that task failed (Err or panic); while the
\* grpc_server task is running wait cannot return, whatever the state of the
\* other tasks.
C6_WaitJoinsGrpcOnly ==
    /\ wait_pc = "returned" =>
        /\ Terminated("grpc_server")
        /\ (wait_result = "err") <=> (tasks["grpc_server"] \in {"err", "panicked"})
        /\ (wait_result = "ok") <=> (tasks["grpc_server"] = "ok")
    /\ tasks["grpc_server"] = "running" => ~ENABLED WaitReturn

C6_Witness ==
    /\ wait_pc = "awaiting"
    /\ tasks["grpc_server"] = "running"
    /\ \A t \in TaskNames \ {"grpc_server"} : tasks[t] # "running"
    /\ tasks["batch_subsystem"] = "err"
    /\ tasks["post_processing_subsystem"] = "err"

\* C7 as stated: a failure at any step makes start return an error, with no
\* node and no later step.
C7_Original ==
    failed_at # "none" => (result = "err" /\ pc = "failed" /\ ~node.built)

\* C7 (amended): a failure at a step makes start stop there: no later step of
\* start can run, no node is built, and the completed steps stay as they were.
\* The failure is returned as an error, except a failure of connect_lazy, which
\* is unwrapped and makes start panic.
C7_FailureAborts ==
    /\ failed_at # "none" =>
        /\ pc = "failed"
        /\ ~node.built
        /\ ~Done(failed_at) \/ failed_at = "connect"
        /\ result = (IF failed_at = "connect" THEN "panic" ELSE "err")
    /\ pc = "failed" => (failed_at # "none" /\ ~ENABLED StartNext)
    /\ result \in {"err", "panic"} => pc = "failed"

C7_Witness ==
    /\ failed_at = "ws_start"
    /\ result = "err"
    /\ ~node.built
    /\ json_rpc.started

\* C8: every successfully started node has bound its network address and holds
\* the grpc_server handle of a spawned task, also when no service was
\* registered; the validator service is registered iff the consensus
\* configuration is present.
C8_PeerListenerAlways ==
    Started =>
        /\ grpc.bound
        /\ "grpc_server" \in node.handles
        /\ tasks["grpc_server"] # "none"
        /\ ("ValidatorServer" \in grpc.services) <=> config.consensus_config

C8_Witness ==
    /\ Started
    /\ ~config.consensus_config
    /\ grpc.bound
    /\ grpc.services = {}
    /\ "grpc_server" \in node.handles

\* C9 as stated: after a successful start of a full node no peer listener is
\* bound and serving on the network address.
C9_Original ==
    (Started /\ ~config.consensus_config) => (~grpc.bound /\ tasks["grpc_server"] = "none")

\* C9 (amended): after a successful start of a full node the peer server is
\* bound and its serve task spawned, with no service registered on it: a full
\* node never exposes the validator service.
C9_FullNodeNoValidatorService ==
    (Started /\ ~config.consensus_config) =>
        /\ grpc.bound
        /\ tasks["grpc_server"] # "none"
        /\ ~grpc.validator_service
        /\ grpc.services = {}

C9_Witness ==
    /\ Started
    /\ ~config.consensus_config
    /\ tasks["grpc_server"] = "running"
    /\ grpc.services = {}

\* The stores a configuration opens.
StoresOf(c) ==
    {"store", "follower_db"}
        \cup (IF c.consensus_config THEN {"checkpoints"} ELSE {"indexes", "node_sync_db"})
        \cup (IF c.enable_event_processing THEN {"events.db"} ELSE {})

\* C10: a successful start has opened exactly store and follower_db, plus
\* checkpoints iff the consensus configuration is present, indexes and
\* node_sync_db iff it is absent, and events.db iff event processing is enabled;
\* no state has both the checkpoint store and the index store open, and start
\* never opens a store outside that set.
C10_StoreSet ==
    /\ Started => opened = StoresOf(config)
    /\ opened \subseteq StoresOf(config)
    /\ ~("checkpoints" \in opened /\ "indexes" \in opened)

C10_Witness ==
    /\ Started
    /\ config.consensus_config
    /\ ~config.enable_gossip
    /\ ReplicationSpawns = {}
    /\ "follower_db" \in opened
    /\ "node_sync_db" \notin opened

PostProcessingExpected == ~config.consensus_config \/ config.enable_event_processing

\* C11: the post-processing task is spawned iff the index store is present or
\* event processing is enabled: once start is past that step the task exists on
\* every full node, and on a validator exactly when enable_event_processing is
\* true; it is never spawned otherwise, and a started node holds its handle
\* under the same condition.
C11_PostProcessing ==
    /\ tasks["post_processing_subsystem"] # "none" => PostProcessingExpected
    /\ Done("post_processing") =>
            (tasks["post_processing_subsystem"] # "none" <=> PostProcessingExpected)
    /\ Started =>
            (("_post_processing_subsystem_handle" \in node.handles) <=> PostProcessingExpected)
    /\ Done("post_processing") =>
            (tasks["post_processing_subsystem"] # "none" <=>
                ("indexes" \in opened \/ config.enable_event_processing))

C11_Witness ==
    /\ Started
    /\ config.consensus_config
    /\ config.enable_event_processing
    /\ "indexes" \notin opened
    /\ tasks["post_processing_subsystem"] = "running"

BatchSpawns == {i \in 1..Len(spawns) : spawns[i].task = "batch_subsystem"}

\* C12: the batch task is spawned at most once, and exactly once with the
\* thresholds 1000 entries and 1 second in every run that is past the batch
\* step, for every configuration; every started node holds its handle.
C12_BatchOnce ==
    /\ Cardinality(BatchSpawns) <= 1
    /\ \A i \in BatchSpawns : spawns[i].args = <<1000, 1>>
    /\ Done("batch") => (Cardinality(BatchSpawns) = 1 /\ tasks["batch_subsystem"] # "none")
    /\ ~Done("batch") => tasks["batch_subsystem"] = "none"
    /\ Started => "_batch_subsystem_handle" \in node.handles

C12_Witness ==
    /\ Started
    /\ config.consensus_config
    /\ ~config.enable_gossip
    /\ ~config.enable_event_processing
    /\ Cardinality(BatchSpawns) = 1
    /\ "_batch_subsystem_handle" \in node.handles

\* Something that references the ledger state exists.
SubsystemExists ==
    \/ \E t \in TaskNames : tasks[t] # "none"
    \/ Len(spawns) > 0
    \/ active_authority
    \/ grpc.validator_service
    \/ grpc.bound
    \/ json_rpc.built
    \/ ws.built
    \/ node.built

\* C13: the ledger state is constructed before anything that references it:
\* in every state in which a replication, batch or post-processing task, the
\* replication controller, the validator service, the peer server, the query
\* server, the subscription server or the node exists, the ledger state has
\* been built, and no step after the construction step runs without it.
C13_StateFirst ==
    /\ SubsystemExists => state.built
    /\ Done("state") => state.built
    /\ \A i \in 1..Len(steps) :
            steps[i] \in {"follower", "batch", "post_processing", "validator_service",
                          "grpc_server", "build_node_server", "node"}
                => \E j \in 1..(i - 1) : steps[j] = "state"

C13_Witness ==
    /\ state.built
    /\ pc = "batch"
    /\ tasks["gossip"] = "running"
    /\ Len(spawns) = 1
    /\ ~grpc.bound

\* C15: the ledger state is constructed only after the event store, when event
\* processing is enabled, has been opened and initialized, so that every
\* subsystem exists only with an initialized event store; when the flag is
\* false no event store is ever opened and the ledger state is built without
\* one.
C15_EventStoreBeforeState ==
    /\ (state.built \/ SubsystemExists) =>
            IF config.enable_event_processing
            THEN event_store = "initialized" /\ "events.db" \in opened
            ELSE event_store = "none" /\ "events.db" \notin opened
    /\ ~config.enable_event_processing => (event_store = "none" /\ "events.db" \notin opened)
    /\ event_store # "none" => "events.db" \in opened
    /\ pc = "state" => event_store \in {"none", "initialized"}

C15_Witness ==
    /\ config.enable_event_processing
    /\ event_store = "initialized"
    /\ state.built
    /\ pc = "follower"
    /\ Len(spawns) = 0

LateFailureSteps == {"validator_service", "grpc_server", "json_rpc_builder",
                     "register_ReadApi", "register_FullNodeApi", "register_BcsApiImpl",
                     "register_EventReadApiImpl", "json_rpc_start",
                     "ws_builder", "ws_register", "ws_start"}

ReplicationTask == IF config.consensus_config THEN "gossip" ELSE "node_sync"

\* C17: a failure of start after tasks were spawned stops none of them.  The
\* step at which start fails leaves the status of every task as it was, start
\* then has returned an error and no node, and a task that was running changes
\* status only by terminating on its own.  When the failure is at the validator
\* service, the bind or a query/subscription server step, the batch task, the
\* post-processing task (if any) and the replication task (if any) have been
\* spawned; when it is at a query/subscription server step the peer server
\* task has been spawned too.
C17_FailureLeavesTasks ==
    [][ /\ (pc # "failed" /\ pc' = "failed") =>
            /\ tasks' = tasks
            /\ result' = "err" \/ result' = "panic"
            /\ ~node'.built
            /\ failed_at' \in LateFailureSteps =>
                /\ tasks["batch_subsystem"] # "none"
                /\ should_post_process => tasks["post_processing_subsystem"] # "none"
                /\ should_start_follower => tasks[ReplicationTask] # "none"
                /\ failed_at' \notin {"validator_service", "grpc_server"} =>
                        tasks["grpc_server"] # "none"
        /\ \A t \in TaskNames :
            (tasks[t] = "running" /\ tasks'[t] # "running") =>
                (tasks'[t] \in Outcomes(t) /\ UNCHANGED <<pc, result, failed_at, handles>>)
      ]_vars

C17_Witness ==
    /\ failed_at = "ws_start"
    /\ result = "err"
    /\ tasks["grpc_server"] = "running"
    /\ tasks["batch_subsystem"] = "running"
    /\ tasks["post_processing_subsystem"] = "running"
    /\ tasks["node_sync"] = "running"

DetachedTasks == TaskNames \ {"grpc_server"}

\* What a caller of wait can observe: whether wait has been called, whether
\* it can return now, and what it has returned.
WaitCanReturn == ENABLED WaitReturn

\* C14: the failures of the detached tasks are invisible to wait.  A step in
\* which a batch, post-processing or replication task terminates, with any
\* outcome and at any time, changes neither whether wait can return nor what
\* it has returned; and the result wait returns is the terminal status of the
\* grpc_server task alone, whatever the status of the detached tasks.
C14_DetachedInvisible ==
    [][ /\ (\E t \in DetachedTasks : tasks'[t] # tasks[t] /\ tasks[t] = "running") =>
            /\ WaitCanReturn' = WaitCanReturn
            /\ UNCHANGED <<wait_pc, wait_result>>
        /\ (wait_pc = "awaiting" /\ wait_pc' = "returned") =>
            /\ tasks' = tasks
            /\ wait_result' = (IF tasks["grpc_server"] = "ok" THEN "ok" ELSE "err")
      ]_vars

C14_Witness ==
    /\ wait_pc = "returned"
    /\ wait_result = "ok"
    /\ tasks["grpc_server"] = "ok"
    /\ tasks["batch_subsystem"] = "err"
    /\ tasks["post_processing_subsystem"] = "panicked"
    /\ tasks["node_sync"] = "panicked"

Holds(holder) == \E h \in state.holders : h[1] = holder

\* One ledger state, and every reference is to it.
OneSharedState ==
    /\ state.instances <= 1
    /\ state.built => state.instances = 1
    /\ \A h \in state.holders : h[2] = 1
    /\ active_authority => Holds("active_authority")
    /\ tasks["batch_subsystem"] # "none" => Holds("batch_subsystem")
    /\ tasks["post_processing_subsystem"] # "none" => Holds("post_processing_subsystem")
    /\ grpc.validator_service => Holds("validator_service")
    /\ \A m \in json_rpc.modules \cup ws.modules : Holds(m)
    /\ Started => (Holds("node") /\ NodeState = 1)
    /\ \A i \in 1..Len(state.returned) : state.returned[i] = 1
    /\ (node.built /\ wait_pc = "idle" /\ Len(state.returned) < MaxStateCalls)
            => ENABLED StateAccessor

\* C16: start constructs exactly one ledger state; the replication controller,
\* the batch and post-processing tasks, the validator service, every registered
\* module and the returned node hold references to that one instance; a call
\* of SuiNode::state is possible whenever the node exists, returns a reference
\* to the same instance, and changes neither the node and its handles nor the
\* status of any task or server, nor who holds the ledger state.
C16_OneStateShared ==
    /\ []OneSharedState
    /\ [][ Len(state'.returned) > Len(state.returned) =>
            /\ state'.returned = Append(state.returned, 1)
            /\ state'.instances = state.instances
            /\ state'.holders = state.holders
            /\ UNCHANGED <<node, handles, tasks, spawns, grpc, json_rpc, ws,
                           wait_pc, wait_result, pc, result, failed_at>>
       ]_vars

C16_Witness ==
    /\ Started
    /\ Len(state.returned) = 2
    /\ WsConditions
    /\ Holds("EventStreamingApiImpl")
    /\ Holds("node")
    /\ wait_pc = "idle"

====
